---- MODULE Spec2Model ----
(***************************************************************************)
(* A model of goo.py: one run of main() over a list of keywords.           *)
(*                                                                         *)
(* Text is modelled as a sequence of one-character strings, so that the    *)
(* regular-expression substitution, the natural-sort key, the joining of   *)
(* a record into a line and the splitting of a line are all computed.      *)
(* Keywords are ASCII text.  The page a request returns is chosen by the   *)
(* environment: the request fails, the page has no resultStats element,    *)
(* or the element's first child is one of a few texts.                     *)
(***************************************************************************)
EXTENDS Integers, Sequences, FiniteSets, TLC

VARIABLES
    dry_run,     \* goo.py:61/245   the -y flag
    outfile,     \* goo.py:55/228   TRUE when an output path is configured
    outmode,     \* goo.py:56/236   "w+" or "a+"
    quiet,       \* goo.py:193      arguments['-q']
    min_wait,    \* goo.py:52/213
    max_wait,    \* goo.py:53/218
    keywords,    \* the keyword list as read at goo.py:159-163 (never changed)
    data,        \* goo.py:161-176  the list main() works on
    i,           \* goo.py:167      loop index of the batch loop (1-based here)
    pc,          \* position of main()
    ua_index,    \* goo.py:75       UserAgents.index
    pages,       \* what fetch_html got for each processed keyword
    requests,    \* number of HTTP requests opened (goo.py:129)
    parses,      \* number of BeautifulSoup parses (goo.py:103)
    raised,      \* TRUE when process() let an exception reach main()
    s,           \* goo.py:137      seconds drawn by the running do_wait()
    slept,       \* goo.py:139-140  seconds of it already slept
    pauses,      \* indexes after which do_wait() was called, in order
    presort,     \* data as it was when the batch loop ended
    file,        \* content of the output file
    console,     \* lines printed to stdout (goo.py:191)
    dump,        \* lists pretty-printed by the fallback (goo.py:188)
    errlog,      \* number of log.error/log.exception records
    io_failed,   \* TRUE when opening or writing the output file raised
    summary      \* the "processed %d keyword(s) with %d error(s)" line

vars == <<dry_run, outfile, outmode, quiet, min_wait, max_wait, keywords, data,
          i, pc, ua_index, pages, requests, parses, raised, s, slept, pauses,
          presort, file, console, dump, errlog, io_failed, summary>>

config == <<dry_run, outfile, outmode, quiet, min_wait, max_wait, keywords>>

(***************************************************************************)
(* Bounds of the model.                                                    *)
(***************************************************************************)
MaxKeywords == 3

(***************************************************************************)
(* Program constants.                                                      *)
(***************************************************************************)
DefaultWait == 5
DefaultFuzz == 5
NumUserAgents == 6

Delim == <<",">>
Newline == "\n"
Sentinel == <<"-", "1">>

Digit == {"0", "1", "2", "3", "4", "5", "6", "7", "8", "9"}

DigitVal(c) ==
    CASE c = "0" -> 0 [] c = "1" -> 1 [] c = "2" -> 2 [] c = "3" -> 3
      [] c = "4" -> 4 [] c = "5" -> 5 [] c = "6" -> 6 [] c = "7" -> 7
      [] c = "8" -> 8 [] c = "9" -> 9

(***************************************************************************)
(* Inputs.                                                                 *)
(***************************************************************************)
Keywords == { <<"a">>, <<"a", ",", "b">> }

StatsText ==
    << "A", "b", "o", "u", "t", " ", "1", ",", "2", "3", "0", ",", "0", "0",
       "0", " ", "r", "e", "s", "u", "l", "t", "s", " ", "(", "0", ".", "4",
       "5", " ", "s", "e", "c", "o", "n", "d", "s", ")" >>
SmallText == << "9", " ", "r", "e", "s", "u", "l", "t", "s" >>
NoDigitText == << "N", "o", " ", "r", "e", "s", "u", "l", "t", "s" >>

Texts == { StatsText, SmallText, NoDigitText }

NoPage == [kind |-> "none", text |-> <<>>]
Pages ==
    { [kind |-> "neterr", text |-> <<>>], [kind |-> "noelem", text |-> <<>>] }
    \cup { [kind |-> "text", text |-> t] : t \in Texts }

OldContent == << "o", "l", "d", Newline >>

SeqsUpTo(S, n) == UNION { [1..m -> S] : m \in 1..n }

(***************************************************************************)
(* UserAgents.next()                                                       *)
(***************************************************************************)
UserAgentsNext(index) ==
    IF index + 1 = NumUserAgents THEN 0 ELSE index + 1

(***************************************************************************)
(* non_numeric.sub('', stats)                                              *)
(***************************************************************************)
StripFirstRun(text) ==
    LET RECURSIVE run(_, _)
        run(t, started) ==
            IF t = <<>> THEN <<>>
            ELSE IF Head(t) \in Digit THEN <<Head(t)>> \o run(Tail(t), TRUE)
            ELSE IF started /\ Head(t) # "," THEN <<>>
            ELSE run(Tail(t), started)
    IN  run(text, FALSE)

StripNonNumeric(text) == SelectSeq(text, LAMBDA c : c \in Digit)

(***************************************************************************)
(* fetch_html(elem, user_agent): the request is built and opened only      *)
(* when dry_run is off; with dry_run on the function falls off its end and *)
(* returns None.  urlopen raises when the environment's answer is a        *)
(* network error.                                                          *)
(***************************************************************************)
FetchHtmlIgnoringDryRun(page) ==
    [requested |-> 1, raised |-> page.kind = "neterr", html |-> page]

FetchHtml(page) ==
    IF ~dry_run
    THEN [requested |-> 1, raised |-> page.kind = "neterr", html |-> page]
    ELSE [requested |-> 0, raised |-> FALSE, html |-> NoPage]

(***************************************************************************)
(* The except clause of process(): log, return (keyword, '-1').            *)
(***************************************************************************)
ExceptHandlerReraises(keyword) ==
    [raised |-> TRUE, rec |-> <<keyword>>, logged |-> 1]

ExceptHandler(keyword) ==
    [raised |-> FALSE, rec |-> <<keyword, Sentinel>>, logged |-> 1]

(***************************************************************************)
(* soup.find(id='resultStats').contents[0] raises AttributeError when the  *)
(* page has no such element.                                               *)
(***************************************************************************)
FindRaises(html) == html.kind # "text"

(***************************************************************************)
(* process(keyword, user_agent)                                            *)
(***************************************************************************)
Process(keyword, page) ==
    LET f == FetchHtml(page)
        h == ExceptHandler(keyword)
    IN  IF f.raised
        THEN [raised |-> h.raised, rec |-> h.rec, logged |-> h.logged,
              requested |-> f.requested, parsed |-> 0, page |-> f.html]
        ELSE IF ~dry_run
        THEN IF FindRaises(f.html)
             THEN [raised |-> h.raised, rec |-> h.rec, logged |-> h.logged,
                   requested |-> f.requested, parsed |-> 1, page |-> f.html]
             ELSE [raised |-> FALSE,
                   rec |-> <<keyword, StripNonNumeric(f.html.text)>>,
                   logged |-> 0,
                   requested |-> f.requested, parsed |-> 1, page |-> f.html]
        ELSE [raised |-> FALSE, rec |-> <<keyword, Sentinel>>, logged |-> 0,
              requested |-> f.requested, parsed |-> 0, page |-> f.html]

(***************************************************************************)
(* data[i] = process(...): the record replaces the keyword at its index.   *)
(***************************************************************************)
StoreResultAtFirst(list, idx, rec) == [list EXCEPT ![1] = rec]

StoreResult(list, idx, rec) == [list EXCEPT ![idx] = rec]

(***************************************************************************)
(* random.randint(min_wait, max_wait): both ends included.                 *)
(***************************************************************************)
RandIntHalfOpen == min_wait .. (max_wait + 1)

RandInt == min_wait .. max_wait

(***************************************************************************)
(* The test that guards do_wait() in the batch loop: i + 1 != len(data),   *)
(* with i counted from 1 here.                                             *)
(***************************************************************************)
WaitsAfter(idx) == idx # Len(data)

(***************************************************************************)
(* natsorted(data, itemgetter(1)) followed by data.reverse().  The key of  *)
(* a count is the tuple of its numbers as natsort's signed number pattern  *)
(* reads them: a digit string is one number, '-1' is the number -1, the    *)
(* empty string has the empty key.  Tuples compare as Python compares      *)
(* them, and sorted() is stable.                                           *)
(***************************************************************************)
RECURSIVE ParseNat(_)
ParseNat(digits) ==
    IF digits = <<>> THEN 0
    ELSE 10 * ParseNat(SubSeq(digits, 1, Len(digits) - 1))
         + DigitVal(digits[Len(digits)])

NatKey(count) ==
    IF count = <<>> THEN <<>>
    ELSE IF Head(count) = "-" THEN << 0 - ParseNat(Tail(count)) >>
    ELSE << ParseNat(count) >>

KeyLess(a, b) ==
    IF a = <<>> THEN b # <<>>
    ELSE IF b = <<>> THEN FALSE
    ELSE a[1] < b[1]

RECURSIVE InsertByKey(_, _)
InsertByKey(x, sorted) ==
    IF sorted = <<>> THEN <<x>>
    ELSE IF KeyLess(NatKey(x[2]), NatKey(Head(sorted)[2]))
         THEN <<x>> \o sorted
         ELSE <<Head(sorted)>> \o InsertByKey(x, Tail(sorted))

RECURSIVE NatSorted(_)
NatSorted(list) ==
    IF list = <<>> THEN <<>>
    ELSE InsertByKey(list[Len(list)],
                     NatSorted(SubSeq(list, 1, Len(list) - 1)))

Reverse(list) == [j \in 1..Len(list) |-> list[Len(list) + 1 - j]]

RankWithoutReverse(list) == NatSorted(list)

Rank(list) == Reverse(NatSorted(list))

(***************************************************************************)
(* '%s\n' % delim.join(result), and the lines of a list of records.        *)
(***************************************************************************)
JoinResultSwapped(result) == result[2] \o Delim \o result[1]

JoinResult(result) == result[1] \o Delim \o result[2]

RECURSIVE Flatten(_)
Flatten(lines) ==
    IF lines = <<>> THEN <<>>
    ELSE Head(lines) \o <<Newline>> \o Flatten(Tail(lines))

Lines(list) == [j \in 1..Len(list) |-> JoinResult(list[j])]

(***************************************************************************)
(* Counter(elem[1] for elem in data)['-1']                                 *)
(***************************************************************************)
Errors(list) == Cardinality({j \in 1..Len(list) : list[j][2] = Sentinel})

(***************************************************************************)
(* The state when main() is entered: the arguments were validated at       *)
(* goo.py:213-245 and the keyword list was read.                           *)
(***************************************************************************)
InitConfig ==
    /\ dry_run \in BOOLEAN
    /\ outfile \in BOOLEAN
    /\ outmode \in {"w+", "a+"}
    /\ quiet \in BOOLEAN
    /\ min_wait \in {0, DefaultWait}
    /\ \E fuzz \in {0, DefaultFuzz} : max_wait = min_wait + fuzz

InitOutputs ==
    /\ file = OldContent
    /\ console = <<>>
    /\ dump = <<>>
    /\ io_failed = FALSE
    /\ summary = <<>>

Init ==
    /\ InitConfig
    /\ keywords \in SeqsUpTo(Keywords, MaxKeywords)
    /\ data = [j \in 1..Len(keywords) |-> <<keywords[j]>>]
    /\ i = 1
    /\ pc = "process"
    /\ ua_index = 0
    /\ pages = <<>>
    /\ requests = 0
    /\ parses = 0
    /\ raised = FALSE
    /\ s = 0
    /\ slept = 0
    /\ pauses = <<>>
    /\ presort = <<>>
    /\ errlog = 0
    /\ InitOutputs

(***************************************************************************)
(* One pass of the batch loop up to the wait: data[i] = process(data[i],   *)
(* user_agents.next()).                                                    *)
(***************************************************************************)
ProcessStep ==
    /\ pc = "process"
    /\ \E page \in Pages :
         LET r == Process(data[i][1], page) IN
         /\ ua_index' = UserAgentsNext(ua_index)
         /\ pages' = Append(pages, r.page)
         /\ requests' = requests + r.requested
         /\ parses' = parses + r.parsed
         /\ errlog' = errlog + r.logged
         /\ raised' = r.raised
         /\ data' = StoreResult(data, i, r.rec)
         /\ pc' = IF r.raised THEN "crashed"
                  ELSE IF WaitsAfter(i) THEN "wait" ELSE "sort"
    /\ UNCHANGED <<config, i, s, slept, pauses, presort, file, console, dump,
                   io_failed, summary>>

(***************************************************************************)
(* do_wait(): draw s, then sleep one second s times.                       *)
(***************************************************************************)
DoWait ==
    /\ pc = "wait"
    /\ \E drawn \in RandInt : s' = drawn
    /\ slept' = 0
    /\ pauses' = Append(pauses, i)
    /\ pc' = "sleeping"
    /\ UNCHANGED <<config, data, i, ua_index, pages, requests, parses, raised,
                   presort, file, console, dump, errlog, io_failed, summary>>

Sleep ==
    /\ pc = "sleeping"
    /\ slept < s
    /\ slept' = slept + 1
    /\ UNCHANGED <<config, data, i, pc, ua_index, pages, requests, parses,
                   raised, s, pauses, presort, file, console, dump, errlog,
                   io_failed, summary>>

DoWaitReturn ==
    /\ pc = "sleeping"
    /\ slept = s
    /\ s' = 0
    /\ slept' = 0
    /\ i' = i + 1
    /\ pc' = "process"
    /\ UNCHANGED <<config, data, ua_index, pages, requests, parses, raised,
                   pauses, presort, file, console, dump, errlog, io_failed,
                   summary>>

(***************************************************************************)
(* data = natsorted(data, itemgetter(1)); data.reverse()                   *)
(***************************************************************************)
Sort ==
    /\ pc = "sort"
    /\ presort' = data
    /\ data' = Rank(data)
    /\ pc' = "write"
    /\ UNCHANGED <<config, i, ua_index, pages, requests, parses, raised, s,
                   slept, pauses, file, console, dump, errlog, io_failed,
                   summary>>

(***************************************************************************)
(* The write stage, goo.py:178-191.  With an output path and dry_run off   *)
(* the file is opened (truncated unless appending) and one line is written *)
(* per record; the environment may make the open fail, or the write of any *)
(* line fail: the except clause then logs the error and pretty-prints the  *)
(* whole list.  With an output path and dry_run on nothing is opened.      *)
(* Without an output path the lines are printed.                           *)
(***************************************************************************)
\* open(outfile, outmode): 'w+' truncates, 'a+' keeps what the file holds.
Opened == IF outmode = "w+" THEN <<>> ELSE file

\* if outfile: ... if not dry_run: with open(...)
WriteFileAlways == outfile

WritesFile == outfile /\ ~dry_run

\* pp.pprint(data) in the except clause; written is the number of lines
\* that reached the file before the error.
DumpUnwritten(list, written) == << SubSeq(list, written + 1, Len(list)) >>

DumpOnError(list, written) == <<list>>

WriteResults ==
    /\ pc = "write"
    /\ IF WritesFile
       THEN \E k \in 0 .. (Len(data) + 1) :
              IF k = Len(data)
              THEN /\ file' = Opened \o Flatten(Lines(data))
                   /\ UNCHANGED <<console, dump, errlog, io_failed>>
              ELSE /\ file' = IF k = Len(data) + 1 THEN file
                              ELSE Opened \o Flatten(Lines(SubSeq(data, 1, k)))
                   /\ io_failed' = TRUE
                   /\ errlog' = errlog + 1
                   /\ dump' = dump \o DumpOnError(data,
                                      IF k = Len(data) + 1 THEN 0 ELSE k)
                   /\ UNCHANGED console
       ELSE IF outfile
       THEN UNCHANGED <<file, console, dump, errlog, io_failed>>
       ELSE /\ console' = console \o Lines(data)
            /\ UNCHANGED <<file, dump, errlog, io_failed>>
    /\ pc' = "summary"
    /\ UNCHANGED <<config, data, i, ua_index, pages, requests, parses, raised,
                   s, slept, pauses, presort, summary>>

(***************************************************************************)
(* goo.py:193-195                                                          *)
(***************************************************************************)
Summary ==
    /\ pc = "summary"
    /\ summary' = IF quiet THEN <<>>
                  ELSE << [processed |-> Len(data), errors |-> Errors(data)] >>
    /\ pc' = "done"
    /\ UNCHANGED <<config, data, i, ua_index, pages, requests, parses, raised,
                   s, slept, pauses, presort, file, console, dump, errlog,
                   io_failed>>

Next ==
    \/ ProcessStep
    \/ DoWait
    \/ Sleep
    \/ DoWaitReturn
    \/ Sort
    \/ WriteResults
    \/ Summary

Spec == Init /\ [][Next]_vars

(***************************************************************************)
(* The output stages on their own: main() at the end of its batch loop,    *)
(* dry_run off, with every record's count a digit string or '-1'.  The     *)
(* page that gave a count is the text made of its digits, and the page     *)
(* that gave '-1' has no resultStats element.                              *)
(***************************************************************************)
RankCounts ==
    { Sentinel, <<"0">>, <<"9">>, <<"1", "0">>, <<"5", "0", "0">>,
      <<"7", "5", "0", "0", "0", "0">> }

PageOf(count) ==
    IF count = Sentinel THEN [kind |-> "noelem", text |-> <<>>]
    ELSE [kind |-> "text", text |-> count]

InitOutput ==
    /\ dry_run = FALSE
    /\ outfile \in BOOLEAN
    /\ outmode \in {"w+", "a+"}
    /\ quiet \in BOOLEAN
    /\ min_wait = DefaultWait
    /\ max_wait = DefaultWait + DefaultFuzz
    /\ data \in SeqsUpTo(Keywords \X RankCounts, MaxKeywords)
    /\ keywords = [j \in 1..Len(data) |-> data[j][1]]
    /\ i = Len(data)
    /\ pc = "sort"
    /\ ua_index = Len(data) % NumUserAgents
    /\ pages = [j \in 1..Len(data) |-> PageOf(data[j][2])]
    /\ requests = Len(data)
    /\ parses = Len(data)
    /\ raised = FALSE
    /\ s = 0
    /\ slept = 0
    /\ pauses = [j \in 1..(Len(data) - 1) |-> j]
    /\ presort = <<>>
    /\ errlog = Errors(data)
    /\ InitOutputs

NextOutput ==
    \/ Sort
    \/ WriteResults
    \/ Summary

SpecOutput == InitOutput /\ [][NextOutput]_vars

(***************************************************************************)
(* Vocabulary of the properties.                                           *)
(***************************************************************************)
LoopEnded == pc = "sort"
Sorted == pc \in {"write", "summary", "done"}
Written == pc \in {"summary", "done"}

\* The records in the order the batch loop produced them.
Batch == IF Sorted THEN presort ELSE data

Processed == 1 .. Len(pages)

FetchFailed(page) == page.kind = "neterr"
ExtractFailed(page) == page.kind = "noelem"
Succeeded(page) == page.kind = "text"

IsDigits(count) == \A j \in 1..Len(count) : count[j] \in Digit
IsCount(count) == count = Sentinel \/ (count # <<>> /\ IsDigits(count))

\* The count read as an integer.
IntOf(count) == IF count = Sentinel THEN 0 - 1 ELSE ParseNat(count)

Occurrences(list, x) == Cardinality({j \in 1..Len(list) : list[j] = x})
IsPermutation(a, b) ==
    /\ Len(a) = Len(b)
    /\ \A j \in 1..Len(a) : Occurrences(a, a[j]) = Occurrences(b, a[j])

\* The pieces of text between the occurrences of sep.
RECURSIVE Split(_, _)
Split(text, sep) ==
    IF \A j \in 1..Len(text) : text[j] # sep THEN <<text>>
    ELSE LET k == CHOOSE j \in 1..Len(text) :
                    text[j] = sep /\ \A m \in 1..(j - 1) : text[m] # sep
         IN  <<SubSeq(text, 1, k - 1)>>
             \o Split(SubSeq(text, k + 1, Len(text)), sep)

\* The lines of a file as a reader sees them, terminators removed.
ReadLines(content) ==
    LET p == Split(content, Newline)
    IN  IF p[Len(p)] = <<>> THEN SubSeq(p, 1, Len(p) - 1) ELSE p

\* Every line of the file split on ','.
ReadBack(content) ==
    LET l == ReadLines(content)
    IN  [j \in 1..Len(l) |-> Split(l[j], ",")]

\* The file after a complete write of the list, given what it held before.
FileAfterWriting(list) ==
    (IF outmode = "w+" THEN <<>> ELSE OldContent) \o Flatten(Lines(list))

PlainKeyword(keyword) ==
    \A j \in 1..Len(keyword) : keyword[j] # "," /\ keyword[j] # Newline

(***************************************************************************)
(* Properties.                                                             *)
(***************************************************************************)

\* C1: process() never raises to the batch loop; every keyword whose fetch
\* failed (network error) or whose extraction failed (no resultStats element)
\* has the record (keyword, "-1"); and when the loop has ended every keyword
\* of the input was processed, whatever failed before it.
C1_FailureIsolation ==
    /\ raised = FALSE
    /\ pc # "crashed"
    /\ \A j \in Processed :
         (FetchFailed(pages[j]) \/ ExtractFailed(pages[j]))
             => Batch[j] = <<keywords[j], Sentinel>>
    /\ (LoopEnded \/ Sorted) => Len(pages) = Len(keywords)

C1_Witness ==
    /\ pc = "done"
    /\ Len(keywords) = 3
    /\ FetchFailed(pages[1])
    /\ ExtractFailed(pages[2])
    /\ Succeeded(pages[3])
    /\ presort[3][2] # Sentinel

\* C2: when the batch loop ends, before sorting, the list has exactly one
\* record per input keyword and the record at index j carries the keyword
\* that was at index j of the input.
C2_CardinalityAndOrder ==
    LoopEnded =>
        /\ Len(data) = Len(keywords)
        /\ \A j \in 1..Len(data) :
             Len(data[j]) = 2 /\ data[j][1] = keywords[j]

C2_Witness ==
    /\ LoopEnded
    /\ Len(keywords) = 3
    /\ keywords[1] # keywords[2]
    /\ FetchFailed(pages[1])
    /\ Succeeded(pages[2])
    /\ ExtractFailed(pages[3])

\* C3: for records whose counts are digit strings or "-1", the sorted list is
\* a permutation of the list the loop produced, is ordered descending by the
\* count read as an integer, and has every "-1" record after every record
\* with a non-negative count.
C3_Ranking ==
    (Sorted /\ \A j \in 1..Len(presort) : IsCount(presort[j][2])) =>
        /\ IsPermutation(data, presort)
        /\ \A j, k \in 1..Len(data) :
             j < k => IntOf(data[j][2]) >= IntOf(data[k][2])
        /\ \A j, k \in 1..Len(data) :
             (data[j][2] = Sentinel /\ data[k][2] # Sentinel) => k < j

C3_Witness ==
    /\ Sorted
    /\ Len(presort) = 3
    /\ presort[1][2] = <<"5", "0", "0">>
    /\ presort[2][2] = Sentinel
    /\ presort[3][2] = <<"7", "5", "0", "0", "0", "0">>
    /\ data = <<presort[3], presort[1], presort[2]>>

\* C4: with dry-run enabled no HTTP request is issued and no HTML is parsed
\* at any point of the run, and every record produced has count "-1".
C4_DryRunNoRequests ==
    dry_run =>
        /\ requests = 0
        /\ parses = 0
        /\ \A j \in Processed : Batch[j] = <<keywords[j], Sentinel>>
        /\ Sorted => \A j \in 1..Len(data) : data[j][2] = Sentinel

C4_Witness ==
    /\ dry_run
    /\ pc = "done"
    /\ Len(keywords) = 2
    /\ keywords[1] # keywords[2]
    /\ IsPermutation(data, << <<keywords[1], Sentinel>>,
                              <<keywords[2], Sentinel>> >>)

\* C5 (as stated): with dry-run enabled the write stage emits one line per
\* record, into the output file when an output path is configured and onto
\* the console when none is.
C5_DryRunStillWrites ==
    (dry_run /\ Written) =>
        IF outfile THEN file = FileAfterWriting(data)
                   ELSE console = Lines(data)

\* C5 (amended): with dry-run enabled the write stage prints one line per
\* record (all with count "-1") on the console when no output path is
\* configured; when one is configured it opens no file and writes nothing,
\* neither to the file nor to the console.
C5_DryRunWritesNoFile ==
    (dry_run /\ Written) =>
        IF outfile
        THEN file = OldContent /\ console = <<>> /\ dump = <<>> /\ ~io_failed
        ELSE /\ console = Lines(data)
             /\ Len(console) = Len(keywords)
             /\ \A j \in 1..Len(data) : data[j][2] = Sentinel
             /\ file = OldContent

C5_Witness ==
    /\ dry_run
    /\ outfile
    /\ pc = "done"
    /\ Len(data) = 2
    /\ file = OldContent

\* C6 (as stated): a page whose resultStats element has the first text
\* "About 1,230,000 results (0.45 seconds)" gives the count "1230000".
C6_ExtractsResultCountOnly ==
    \A j \in Processed :
        (Succeeded(pages[j]) /\ pages[j].text = StatsText)
            => Batch[j][2] = <<"1", "2", "3", "0", "0", "0", "0">>

\* C6 (amended): for that text the count is "1230000045": every non-digit
\* character is removed and the digits are kept in order, those of the
\* timing included.
C6_ExtractsEveryDigit ==
    \A j \in Processed :
        (Succeeded(pages[j]) /\ pages[j].text = StatsText)
            => Batch[j] = <<keywords[j],
                            <<"1", "2", "3", "0", "0", "0", "0", "0", "4", "5">> >>

C6_Witness ==
    /\ pc = "done"
    /\ \E j \in Processed : Succeeded(pages[j]) /\ pages[j].text = StatsText

\* C7 (as stated): records written to a file in overwrite mode with delimiter
\* ',' are read back, line by line and split on ',', as the same (keyword,
\* count) pairs in the same order, whatever text the keywords are.
C7_RoundTripAnyKeyword ==
    (Written /\ outfile /\ ~dry_run /\ outmode = "w+" /\ ~io_failed
        /\ \A j \in 1..Len(data) : IsCount(data[j][2]))
        => ReadBack(file) = data

\* C7 (amended): the same, for keywords that contain neither ',' nor a line
\* break.
C7_RoundTripPlainKeywords ==
    (Written /\ outfile /\ ~dry_run /\ outmode = "w+" /\ ~io_failed
        /\ \A j \in 1..Len(data) :
             IsCount(data[j][2]) /\ PlainKeyword(data[j][1]))
        => ReadBack(file) = data

C7_Witness ==
    /\ pc = "done"
    /\ outfile /\ ~dry_run /\ outmode = "w+" /\ ~io_failed
    /\ Len(data) = 3
    /\ \A j \in 1..Len(data) : PlainKeyword(data[j][1])
    /\ data[1][2] = <<"7", "5", "0", "0", "0", "0">>
    /\ data[3][2] = Sentinel
    /\ ReadBack(file) = data

\* C8: in every record the run produces the count is a non-empty digits-only
\* string or "-1"; a resultStats text without any digit gives "-1".
C8_CountDomain ==
    \A j \in Processed : IsCount(Batch[j][2])

\* C9: a pause is taken after the keyword at every index but the last, in
\* order, so n keywords give n-1 pauses, also after keywords that failed;
\* each pause is a whole number of seconds between min_wait and max_wait
\* inclusive, slept one second at a time.
C9_Pacing ==
    /\ pc = "sleeping" => (s \in min_wait..max_wait /\ slept \in 0..s)
    /\ pc = "process" => pauses = [j \in 1..(i - 1) |-> j]
    /\ pc = "wait" => (pauses = [j \in 1..(i - 1) |-> j] /\ i < Len(keywords))
    /\ pc = "sleeping" => (pauses = [j \in 1..i |-> j] /\ i < Len(keywords))
    /\ (LoopEnded \/ Sorted) => pauses = [j \in 1..(Len(keywords) - 1) |-> j]

C9_Witness ==
    /\ pc = "sleeping"
    /\ Len(keywords) = 3
    /\ min_wait = 5
    /\ max_wait = 10
    /\ s = 10
    /\ slept = 10
    /\ i = 2
    /\ FetchFailed(pages[1])
    /\ ExtractFailed(pages[2])

\* C10: when opening or writing the output file fails, main() catches the
\* error, pretty-prints the whole ranked list, logs the error and goes on
\* to the summary; the dump holds every record even when some lines were
\* already written.
C10_WriteFailureFallback ==
    io_failed =>
        /\ Written
        /\ dump = <<data>>
        /\ Len(data) = Len(keywords)
        /\ IsPermutation(data, presort)
        /\ errlog = 1 + Cardinality({j \in Processed : ~Succeeded(pages[j])})
        /\ (pc = "done" /\ ~quiet) =>
               summary = << [processed |-> Len(data), errors |-> Errors(data)] >>

C10_Witness ==
    /\ io_failed
    /\ pc = "done"
    /\ ~quiet
    /\ Len(data) = 3
    /\ file = FileAfterWriting(SubSeq(data, 1, 2))
    /\ summary # <<>>

====
